---- MODULE Spec2Model ----
(***************************************************************************)
(* Model of SummarizeIntersection (scripts/summarize_zonal_intersections.py)*)
(* : one run of processAlgorithm as a sequence of steps, with the helper   *)
(* methods as operators.                                                   *)
(*                                                                         *)
(* Geometry is modelled on a strip of cells 1..3 of sizes 40, 60 and 40.   *)
(* A geometry is the set of cells it covers: a polygon covers the cells, a *)
(* line runs through them (its length in a cell is the cell's size), a     *)
(* (multi)point sits at the cells' centres.  Two geometries of dimension   *)
(* >= 1 in neighbouring cells touch: they intersect, and the intersection  *)
(* is not empty but has no area and no length.                             *)
(* Floating-point numbers are modelled as exact rationals <<n, d>>.        *)
(***************************************************************************)
EXTENDS Integers, Sequences, FiniteSets, TLC

\* QgsWkbTypes.GeometryType, as compared by validateGeometries
PointGeometry == 0
LineGeometry == 1
PolygonGeometry == 2
GeometryTypes == {PointGeometry, LineGeometry, PolygonGeometry}

\* bounds of the model: features per source
MaxZones == 2
MaxClasses == 2

----
\* attribute values (QVariant): a number, a string or NULL
Num(n) == [kind |-> "num", num |-> n, den |-> 1, str |-> ""]
Str(s) == [kind |-> "str", num |-> 0, den |-> 1, str |-> s]
Null == [kind |-> "null", num |-> 0, den |-> 1, str |-> ""]
\* a floating-point value n/d
Float(r) == [kind |-> "num", num |-> r[1], den |-> r[2], str |-> ""]

\* field schemas of the two sources, in layer order
ZoneLayerFields == <<"ZID", "ZNAME">>
ClassLayerFields == <<"CLS", "POP", "HH">>

CellSize == <<40, 60, 40>>

\* the features a zone source may hold
ZoneCatalog ==
  { [attrs |-> [ZID |-> Str("A"), ZNAME |-> Str("n1")], cells |-> {1, 2}],
    [attrs |-> [ZID |-> Str("B"), ZNAME |-> Str("n2")], cells |-> {3}] }

\* the features a class source may hold
ClassCatalog ==
  { [attrs |-> [CLS |-> Str("x"), POP |-> Str("abc"), HH |-> Num(5)], cells |-> {1}, valid |-> TRUE],
    [attrs |-> [CLS |-> Str("x"), POP |-> Null, HH |-> Num(5)], cells |-> {1, 2}, valid |-> TRUE],
    [attrs |-> [CLS |-> Str("y"), POP |-> Num(1000), HH |-> Str("7")], cells |-> {2, 3}, valid |-> TRUE],
    [attrs |-> [CLS |-> Str("y"), POP |-> Num(1000), HH |-> Num(0)], cells |-> {2}, valid |-> FALSE] }

SeqsUpTo(S, n) == UNION {[1..k -> S] : k \in 0..n}

ZoneFieldChoices == {<<>>, <<"ZID">>, <<"ZNAME", "ZID">>}
ClassFieldChoices == {<<>>, <<"CLS">>}
SumFieldChoices == {<<>>, <<"POP", "HH">>, <<"HH", "NOPE", "POP">>}

----
\* exact rationals
RECURSIVE GCD(_, _)
GCD(a, b) == IF b = 0 THEN a ELSE GCD(b, a % b)
Rat(n, d) == LET g == GCD(n, d) IN IF n = 0 THEN <<0, 1>> ELSE <<n \div g, d \div g>>
RatAdd(p, q) == Rat(p[1] * q[2] + q[1] * p[2], p[2] * q[2])
RatMul(p, q) == Rat(p[1] * q[1], p[2] * q[2])
RatLeq(p, q) == p[1] * q[2] <= q[1] * p[2]
Zero == <<0, 1>>

RECURSIVE SumSizes(_)
SumSizes(cells) ==
  IF cells = {} THEN 0
  ELSE LET c == CHOOSE x \in cells : TRUE IN CellSize[c] + SumSizes(cells \ {c})

\* geometry engine
Touch(a, b) == \E i \in a, j \in b : i - j = 1 \/ j - i = 1
intersects(zt, ct, a, b) ==
  \/ a \cap b # {}
  \/ zt # PointGeometry /\ ct # PointGeometry /\ Touch(a, b)
intersection(zt, ct, a, b) ==
  [cells |-> a \cap b,
   touch |-> a \cap b = {} /\ zt # PointGeometry /\ ct # PointGeometry /\ Touch(a, b)]
isEmpty(g) == g.cells = {} /\ ~g.touch
area(cells) == SumSizes(cells)
length(cells) == SumSizes(cells)

----
\* python helpers
InSeq(x, s) == \E i \in 1..Len(s) : s[i] = x

\* truth value of an attribute value
Truthy(v) ==
  CASE v.kind = "num" -> v.num # 0
    [] v.kind = "str" -> v.str # ""
    [] OTHER -> FALSE

\* the strings float() reads as a number
NumericStrings == {"7"}
ParseNumber(s) == CASE s = "7" -> 7 [] OTHER -> 0

\* float(v) raises ValueError
FloatRaises(v) == v.kind = "str" /\ v.str \notin NumericStrings
\* float(v) when it does not raise
FloatOf(v) == IF v.kind = "num" THEN <<v.num, v.den>> ELSE <<ParseNumber(v.str), 1>>

----
\* SummarizeIntersection.calculateTotalMeasure
calculateTotalMeasure(cells, wkb_type) ==
  IF wkb_type = PolygonGeometry THEN area(cells)
  ELSE IF wkb_type = LineGeometry THEN length(cells)
  ELSE IF wkb_type = PointGeometry THEN 1
  ELSE 0

\* validateGeometries with ">=" for ">" in its last test
validateGeometries_ge(zt, ct) ==
  \/ zt = PointGeometry /\ ct \in {PolygonGeometry, LineGeometry}
  \/ zt = LineGeometry /\ ct = PolygonGeometry
  \/ ct >= zt

\* validateGeometries with only its test of point zones
validateGeometries_points(zt, ct) ==
  zt = PointGeometry /\ ct \in {PolygonGeometry, LineGeometry}

\* SummarizeIntersection.validateGeometries: TRUE when it raises
validateGeometries(zt, ct) ==
  \/ zt = PointGeometry /\ ct \in {PolygonGeometry, LineGeometry}
  \/ zt = LineGeometry /\ ct = PolygonGeometry
  \/ ct > zt

\* SummarizeIntersection.calculateMeasure
calculateMeasure(geometry, zt, ct) ==
  IF zt = PolygonGeometry /\ ct = PolygonGeometry THEN area(geometry.cells)
  ELSE IF ct = LineGeometry THEN length(geometry.cells)
  ELSE IF ct = PointGeometry THEN 1
  ELSE 0

\* calculatePercentage with the value chosen by the class type
calculatePercentage_by_class(cm, tzm, zt, ct) ==
  LET denominator == IF zt = ct THEN tzm
                     ELSE IF ct = PolygonGeometry THEN cm.AREA ELSE cm.LENGTH
      value == IF ct = PolygonGeometry THEN cm.AREA
               ELSE IF ct = LineGeometry THEN cm.LENGTH
               ELSE cm.PNT_COUNT
  IN IF denominator = 0 THEN <<0, 1>> ELSE Rat(value * 100, denominator)

\* SummarizeIntersection.calculatePercentage
calculatePercentage(cm, tzm, zt, ct) ==
  LET denominator == IF zt = ct THEN tzm
                     ELSE IF ct = PolygonGeometry THEN cm.AREA ELSE cm.LENGTH
      value == IF zt = PolygonGeometry THEN cm.AREA
               ELSE IF zt = LineGeometry THEN cm.LENGTH
               ELSE cm.PNT_COUNT
  IN IF denominator = 0 THEN Zero ELSE Rat(value * 100, denominator)

\* the fresh accumulator of processAlgorithm
NewMeasures(sf) ==
  [AREA |-> 0, LENGTH |-> 0, PNT_COUNT |-> 0,
   SUM_FIELDS |-> [f \in {sf[i] : i \in 1..Len(sf)} |-> Zero]]

\* the main measures with line counted as area
AddMeasure_line_as_area(cm, measure, ct) ==
  IF ct = PolygonGeometry \/ ct = LineGeometry THEN [cm EXCEPT !.AREA = @ + measure]
  ELSE IF ct = PointGeometry THEN [cm EXCEPT !.PNT_COUNT = @ + measure]
  ELSE cm

\* the main measures assigned ("=") where the code accumulates ("+=")
AddMeasure_assign(cm, measure, ct) ==
  IF ct = PolygonGeometry THEN [cm EXCEPT !.AREA = measure]
  ELSE IF ct = LineGeometry THEN [cm EXCEPT !.LENGTH = measure]
  ELSE IF ct = PointGeometry THEN [cm EXCEPT !.PNT_COUNT = measure]
  ELSE cm

\* updateMeasures, the main measures
AddMeasure(cm, measure, ct) ==
  IF ct = PolygonGeometry THEN [cm EXCEPT !.AREA = @ + measure]
  ELSE IF ct = LineGeometry THEN [cm EXCEPT !.LENGTH = @ + measure]
  ELSE IF ct = PointGeometry THEN [cm EXCEPT !.PNT_COUNT = @ + measure]
  ELSE cm

\* updateMeasures, lines 246-259: one sum field that passed the test of line
\* 243 and is readable
AddSumField(cm, field, measure, feature, ct) ==
  LET v == feature.attrs[field]
      feature_value == IF Truthy(v) THEN FloatOf(v) ELSE Zero
      total_class_measure == calculateTotalMeasure(feature.cells, ct)
      proportion == IF total_class_measure # 0 THEN Rat(measure, total_class_measure) ELSE Zero
  IN [cm EXCEPT !.SUM_FIELDS[field] = RatAdd(@, RatMul(feature_value, proportion))]

\* "field in class_feature.fields()" of line 243: class_feature.fields() is
\* a container of field objects and field is a name, a string; membership
\* compares the string with each field object, and no field object equals a
\* string, whatever the feature's fields are named
FieldPresent(field, feature) == FALSE

\* reading the field raises (float() of a non-numeric string)
FieldRaises(field, feature) ==
  /\ FieldPresent(field, feature)
  /\ Truthy(feature.attrs[field])
  /\ FloatRaises(feature.attrs[field])

\* updateMeasures, the loop over sum_fields from position i: the result is
\* [cm, raised]; the loop stops at the first field that raises
RECURSIVE SumLoop(_, _, _, _, _, _)
SumLoop(cm, sf, i, measure, feature, ct) ==
  IF i > Len(sf) THEN [cm |-> cm, raised |-> FALSE]
  ELSE IF ~FieldPresent(sf[i], feature) THEN SumLoop(cm, sf, i + 1, measure, feature, ct)
  ELSE IF FieldRaises(sf[i], feature) THEN [cm |-> cm, raised |-> TRUE]
  ELSE SumLoop(AddSumField(cm, sf[i], measure, feature, ct), sf, i + 1, measure, feature, ct)

\* the try block without the test of isGeosValid
TryBlock_no_validity(cm, measure, feature, sf, ct) ==
  SumLoop(AddMeasure(cm, measure, ct), sf, 1, measure, feature, ct)

\* updateMeasures, the try block: [cm, raised]
TryBlock(cm, measure, feature, sf, ct) ==
  IF ~feature.valid THEN [cm |-> cm, raised |-> FALSE]
  ELSE SumLoop(AddMeasure(cm, measure, ct), sf, 1, measure, feature, ct)

\* the object has an attribute "feedback": no code of the class sets one
SelfHasFeedback == FALSE

\* SummarizeIntersection.updateMeasures: [cm, raised, reported]; raised when
\* an exception leaves the method, reported when the except clause has
\* called reportError.  The except clause reads self.feedback first.
updateMeasures(cm, measure, feature, sf, ct) ==
  LET r == TryBlock(cm, measure, feature, sf, ct)
  IN IF ~r.raised THEN [cm |-> r.cm, raised |-> FALSE, reported |-> FALSE]
     ELSE IF SelfHasFeedback THEN [cm |-> r.cm, raised |-> FALSE, reported |-> TRUE]
     ELSE [cm |-> r.cm, raised |-> TRUE, reported |-> FALSE]

\* a group key: the tuple of the grouping fields' values, or 'ALL'
ALL == [all |-> TRUE, vals |-> <<>>]
KeyOf(feature, fields) ==
  IF fields = <<>> THEN ALL
  ELSE [all |-> FALSE, vals |-> [i \in 1..Len(fields) |-> feature.attrs[fields[i]]]]

\* groupFeatures putting a feature at the front of its group
RECURSIVE GroupLoop_prepend(_, _, _, _)
GroupLoop_prepend(source, fields, i, groups) ==
  IF i > Len(source) THEN groups
  ELSE LET key == IF fields = <<>> THEN [all |-> TRUE, vals |-> <<>>]
                  ELSE [all |-> FALSE,
                        vals |-> [k \in 1..Len(fields) |-> source[i].attrs[fields[k]]]]
           at == {g \in 1..Len(groups) : groups[g].key = key}
       IN IF at = {}
          THEN GroupLoop_prepend(source, fields, i + 1,
                                 Append(groups, [key |-> key, feats |-> <<i>>]))
          ELSE LET g == CHOOSE x \in at : TRUE
               IN GroupLoop_prepend(source, fields, i + 1,
                                    [groups EXCEPT ![g].feats = <<i>> \o @])

\* SummarizeIntersection.groupFeatures: the dict as a sequence of
\* [key, feats] in insertion order, feats the features' positions in source
RECURSIVE GroupLoop(_, _, _, _)
GroupLoop(source, fields, i, groups) ==
  IF i > Len(source) THEN groups
  ELSE LET key == KeyOf(source[i], fields)
           at == {g \in 1..Len(groups) : groups[g].key = key}
       IN IF at = {}
          THEN GroupLoop(source, fields, i + 1, Append(groups, [key |-> key, feats |-> <<i>>]))
          ELSE LET g == CHOOSE x \in at : TRUE
               IN GroupLoop(source, fields, i + 1,
                            [groups EXCEPT ![g].feats = Append(@, i)])
groupFeatures(source, fields) == GroupLoop(source, fields, 1, <<>>)

\* the class groups of processAlgorithm
ClassGroups(source, fields) ==
  IF fields # <<>> THEN groupFeatures(source, fields)
  ELSE <<[key |-> ALL, feats |-> [i \in 1..Len(source) |-> i]]>>

\* the zone features in the order of the two outer loops, with their group
RECURSIVE ZoneOrder(_, _)
ZoneOrder(groups, g) ==
  IF g > Len(groups) THEN <<>>
  ELSE [i \in 1..Len(groups[g].feats) |-> [group |-> g, feat |-> groups[g].feats[i]]]
       \o ZoneOrder(groups, g + 1)

\* the output schema of processAlgorithm
OutputFields(zf, cf, zt, ct) ==
  SelectSeq(ZoneLayerFields, LAMBDA f : InSeq(f, zf))
  \o SelectSeq(ClassLayerFields, LAMBDA f : InSeq(f, cf))
  \o (IF zt = PolygonGeometry /\ ct = PolygonGeometry THEN <<"AREA">> ELSE <<>>)
  \o (IF ct = LineGeometry THEN <<"LENGTH">> ELSE <<>>)
  \o (IF ct = PointGeometry THEN <<"PNT_COUNT">> ELSE <<>>)
  \o <<"PERCENTAGE">>

\* the metric values of a record
Metrics(cm, percentage, zt, ct) ==
  (IF zt = PolygonGeometry /\ ct = PolygonGeometry THEN <<Num(cm.AREA)>> ELSE <<>>)
  \o (IF ct = LineGeometry THEN <<Num(cm.LENGTH)>> ELSE <<>>)
  \o (IF ct = PointGeometry THEN <<Num(cm.PNT_COUNT)>> ELSE <<>>)
  \o <<Float(percentage)>>

----
VARIABLES
  zone_type,        \* geometry type of the zone source
  class_type,       \* geometry type of the class source
  zone_fields,      \* ZONE_FIELDS
  class_fields,     \* CLASS_FIELDS
  sum_fields,       \* SUM_FIELDS
  pc,               \* position in processAlgorithm
  output_fields,    \* the output schema (field names)
  sink_created,     \* parameterAsSink was called
  sink,             \* the records added to the sink, in order
  zones_source,     \* the zone features, once enumerated
  classes_source,   \* the class features, once enumerated
  zones,            \* groupFeatures(zones_source, zone_fields)
  classes,          \* the class groups
  zi,               \* position of the zone feature in the outer loops
  ck,               \* position of the class group
  cf,               \* position of the class feature in its group
  class_measures,   \* the accumulator
  total_zone_measure,
  class_feature,    \* the loop variable class_feature (0: unbound)
  total,
  current,
  progress,         \* the values passed to feedback.setProgress
  feedback_errors,  \* the feature ids passed to reportError
  feedback_canceled,          \* the host has asked to cancel
  zone_started_after_cancel   \* history: the zone feature in progress started after that

vars == <<zone_type, class_type, zone_fields, class_fields, sum_fields, pc,
          output_fields, sink_created, sink, zones_source, classes_source,
          zones, classes, zi, ck, cf, class_measures, total_zone_measure,
          class_feature, total, current, progress, feedback_errors,
          feedback_canceled, zone_started_after_cancel>>

params == <<zone_type, class_type, zone_fields, class_fields, sum_fields>>

Init ==
  /\ zone_type \in GeometryTypes
  /\ class_type \in GeometryTypes
  /\ zone_fields \in ZoneFieldChoices
  /\ class_fields \in ClassFieldChoices
  /\ sum_fields \in SumFieldChoices
  /\ pc = "validate"
  /\ output_fields = <<>>
  /\ sink_created = FALSE
  /\ sink = <<>>
  /\ zones_source = <<>>
  /\ classes_source = <<>>
  /\ zones = <<>>
  /\ classes = <<>>
  /\ zi = 0
  /\ ck = 0
  /\ cf = 0
  /\ class_measures = NewMeasures(<<>>)
  /\ total_zone_measure = 0
  /\ class_feature = 0
  /\ total = 0
  /\ current = 0
  /\ progress = <<>>
  /\ feedback_errors = <<>>
  /\ feedback_canceled = FALSE
  /\ zone_started_after_cancel = FALSE

\* line 94: self.validateGeometries(zones_source, classes_source)
Validate ==
  /\ pc = "validate"
  /\ pc' = IF validateGeometries(zone_type, class_type) THEN "aborted" ELSE "schema"
  /\ UNCHANGED <<params, output_fields, sink_created, sink, zones_source, classes_source,
                 zones, classes, zi, ck, cf, class_measures, total_zone_measure,
                 class_feature, total, current, progress, feedback_errors, feedback_canceled,
                 zone_started_after_cancel>>

\* lines 100-123: the output schema
BuildSchema ==
  /\ pc = "schema"
  /\ output_fields' = OutputFields(zone_fields, class_fields, zone_type, class_type)
  /\ pc' = "sink"
  /\ UNCHANGED <<params, sink_created, sink, zones_source, classes_source,
                 zones, classes, zi, ck, cf, class_measures, total_zone_measure,
                 class_feature, total, current, progress, feedback_errors, feedback_canceled,
                 zone_started_after_cancel>>

\* lines 125-132: parameterAsSink
CreateSink ==
  /\ pc = "sink"
  /\ sink_created' = TRUE
  /\ pc' = "group"
  /\ UNCHANGED <<params, output_fields, sink, zones_source, classes_source,
                 zones, classes, zi, ck, cf, class_measures, total_zone_measure,
                 class_feature, total, current, progress, feedback_errors, feedback_canceled,
                 zone_started_after_cancel>>

\* lines 134-138: the sources are enumerated and grouped
GroupStep ==
  /\ pc = "group"
  /\ \E zs \in SeqsUpTo(ZoneCatalog, MaxZones), cs \in SeqsUpTo(ClassCatalog, MaxClasses) :
       LET zg == groupFeatures(zs, zone_fields)
           cg == ClassGroups(cs, class_fields)
       IN /\ zones_source' = zs
          /\ classes_source' = cs
          /\ zones' = zg
          /\ classes' = cg
          /\ total' = IF Len(zg) # 0 /\ Len(cg) # 0 THEN Len(zg) * Len(cg) ELSE 1
  /\ current' = 0
  /\ zi' = 1
  /\ pc' = "zone"
  /\ UNCHANGED <<params, output_fields, sink_created, sink, ck, cf, class_measures,
                 total_zone_measure, class_feature, progress, feedback_errors, feedback_canceled,
                 zone_started_after_cancel>>

\* where the loop over the class groups stands at group k
AtGroup(k) ==
  IF k > Len(classes) THEN "progress"
  ELSE IF Len(classes[k].feats) = 0 THEN "emit" ELSE "scan"

\* lines 140-151: the next zone feature, and the first accumulator
ZoneStep ==
  /\ pc = "zone"
  /\ zi <= Len(ZoneOrder(zones, 1))
  /\ LET zf == zones_source[ZoneOrder(zones, 1)[zi].feat]
     IN total_zone_measure' = calculateTotalMeasure(zf.cells, zone_type)
  /\ zone_started_after_cancel' = feedback_canceled
  /\ ck' = 1
  /\ cf' = 1
  /\ class_measures' = NewMeasures(sum_fields)
  /\ pc' = AtGroup(1)
  /\ UNCHANGED <<params, output_fields, sink_created, sink, zones_source, classes_source,
                 zones, classes, zi, class_feature, total, current, progress,
                 feedback_errors, feedback_canceled>>

\* lines 153-159: one class feature of the group
ScanStep ==
  /\ pc = "scan"
  /\ LET zf == zones_source[ZoneOrder(zones, 1)[zi].feat]
         c == classes[ck].feats[cf]
         feature == classes_source[c]
         hit == intersects(zone_type, class_type, zf.cells, feature.cells)
         geom == intersection(zone_type, class_type, zf.cells, feature.cells)
         measure == calculateMeasure(geom, zone_type, class_type)
         r == IF hit /\ ~isEmpty(geom)
              THEN updateMeasures(class_measures, measure, feature, sum_fields, class_type)
              ELSE [cm |-> class_measures, raised |-> FALSE, reported |-> FALSE]
     IN /\ class_feature' = c
        /\ class_measures' = r.cm
        /\ feedback_errors' = IF r.reported THEN Append(feedback_errors, c)
                              ELSE feedback_errors
        /\ IF r.raised
           THEN pc' = "crashed" /\ cf' = cf
           ELSE /\ cf' = cf + 1
                /\ pc' = IF cf + 1 > Len(classes[ck].feats) THEN "emit" ELSE "scan"
  /\ UNCHANGED <<params, output_fields, sink_created, sink, zones_source, classes_source,
                 zones, classes, zi, ck, total_zone_measure, total, current, progress,
                 feedback_canceled, zone_started_after_cancel>>

\* the record with the class field values of the first feature of the source
OutFeature_first_of_source(zf, percentage) ==
  [attrs |-> [i \in 1..Len(zone_fields) |-> zf.attrs[zone_fields[i]]]
             \o [i \in 1..Len(class_fields) |-> classes_source[1].attrs[class_fields[i]]]
             \o Metrics(class_measures, percentage, zone_type, class_type),
   zone |-> zi,
   zone_key |-> zones[ZoneOrder(zones, 1)[zi].group].key,
   class_key |-> classes[ck].key]

\* the record of lines 167-187
OutFeature(zf, percentage) ==
  [attrs |-> [i \in 1..Len(zone_fields) |-> zf.attrs[zone_fields[i]]]
             \o [i \in 1..Len(class_fields) |-> classes_source[class_feature].attrs[class_fields[i]]]
             \o Metrics(class_measures, percentage, zone_type, class_type),
   zone |-> zi,
   zone_key |-> zones[ZoneOrder(zones, 1)[zi].group].key,
   class_key |-> classes[ck].key]

\* the test of lines 163-164 without PNT_COUNT
SkipRecord_no_count(cm, percentage) ==
  ~(cm.AREA # 0 \/ cm.LENGTH # 0 \/ percentage[1] # 0)

\* lines 163-165: no record for this class group
SkipRecord(cm, percentage) ==
  ~(cm.AREA # 0 \/ cm.LENGTH # 0 \/ cm.PNT_COUNT # 0 \/ percentage[1] # 0)

\* lines 161-188: the percentage, and the record or none; then the next
\* class group's accumulator (lines 145-151)
EmitStep ==
  /\ pc = "emit"
  /\ LET zf == zones_source[ZoneOrder(zones, 1)[zi].feat]
         percentage == calculatePercentage(class_measures, total_zone_measure,
                                           zone_type, class_type)
     IN sink' = IF SkipRecord(class_measures, percentage)
                THEN sink
                ELSE Append(sink, OutFeature(zf, percentage))
  /\ ck' = ck + 1
  /\ cf' = 1
  /\ class_measures' = IF ck + 1 > Len(classes) THEN class_measures
                       ELSE NewMeasures(sum_fields)
  /\ pc' = AtGroup(ck + 1)
  /\ UNCHANGED <<params, output_fields, sink_created, zones_source, classes_source,
                 zones, classes, zi, total_zone_measure, class_feature, total, current,
                 progress, feedback_errors, feedback_canceled, zone_started_after_cancel>>

\* line 191 divides and multiplies in binary floating point (53-bit
\* significands, round to nearest, ties to even) and int() truncates.  For
\* c, t >= 1 the exponent of c / t: the e with 2^e <= c / t < 2^(e + 1)
RECURSIVE ExponentUp(_, _, _)
ExponentUp(c, t, e) == IF 2 * t <= c THEN ExponentUp(c, 2 * t, e + 1) ELSE e
RECURSIVE ExponentDown(_, _, _)
ExponentDown(c, t, e) == IF c < t THEN ExponentDown(2 * c, t, e - 1) ELSE e
FloatExponent(c, t) == IF c >= t THEN ExponentUp(c, t, 0) ELSE ExponentDown(c, t, 0)

\* (r * 2^k) mod t: what the division current / total leaves after the k
\* binary digits of its significand
RECURSIVE DivisionRemainder(_, _, _)
DivisionRemainder(r, t, k) ==
  IF k = 0 THEN r % t ELSE DivisionRemainder((2 * r) % t, t, k - 1)

\* (current / total) * 100 comes out below the integer 100 * c / t: the
\* quotient was rounded down by rem / t of its last digit, the product
\* carries 100 times that error, and it exceeds half the spacing of the
\* floats just below the integer n (a tie rounds to n, whose significand is
\* even)
ProductBelow(c, t) ==
  LET n == (c * 100) \div t
      e == FloatExponent(c, t)
      rem == DivisionRemainder(c, t, 52 - e)
      d == FloatExponent(n, 1) - e
      half_spacing == IF 2^FloatExponent(n, 1) = n THEN 2^d ELSE 2 * 2^d
  IN /\ (c * 100) % t = 0
     /\ rem # 0 /\ 2 * rem < t
     /\ 400 * rem > t * half_spacing

\* int((current / total) * 100)
ProgressValue(c, t) ==
  IF ProductBelow(c, t) THEN (c * 100) \div t - 1 ELSE (c * 100) \div t

\* lines 190-191
ProgressStep ==
  /\ pc = "progress"
  /\ current' = current + 1
  /\ progress' = Append(progress, ProgressValue(current + 1, total))
  /\ zi' = zi + 1
  /\ pc' = "zone"
  /\ UNCHANGED <<params, output_fields, sink_created, sink, zones_source, classes_source,
                 zones, classes, ck, cf, class_measures, total_zone_measure,
                 class_feature, total, feedback_errors, feedback_canceled, zone_started_after_cancel>>

\* line 193: return {self.OUTPUT: dest_id}
Return ==
  /\ pc = "zone"
  /\ zi > Len(ZoneOrder(zones, 1))
  /\ pc' = "done"
  /\ UNCHANGED <<params, output_fields, sink_created, sink, zones_source, classes_source,
                 zones, classes, zi, ck, cf, class_measures, total_zone_measure,
                 class_feature, total, current, progress, feedback_errors, feedback_canceled,
                 zone_started_after_cancel>>

\* the host cancels the run; processAlgorithm never calls feedback.isCanceled()
HostCancel ==
  /\ ~feedback_canceled
  /\ pc \in {"zone", "scan", "emit", "progress"}
  /\ feedback_canceled' = TRUE
  /\ UNCHANGED <<params, pc, output_fields, sink_created, sink, zones_source,
                 classes_source, zones, classes, zi, ck, cf, class_measures,
                 total_zone_measure, class_feature, total, current, progress,
                 feedback_errors, zone_started_after_cancel>>

Next ==
  \/ Validate
  \/ BuildSchema
  \/ CreateSink
  \/ GroupStep
  \/ ZoneStep
  \/ ScanStep
  \/ EmitStep
  \/ ProgressStep
  \/ Return
  \/ HostCancel

Spec == Init /\ [][Next]_vars

----
(***************************************************************************)
(* Properties                                                              *)
(***************************************************************************)

\* the zone feature at position i of the outer loops
ZoneAt(i) == zones_source[ZoneOrder(zones, 1)[i].feat]

\* the area zone feature i shares with the class features at the positions
\* j.. of s: with all of them, or with those of valid geometry alone
RECURSIVE SharedFrom(_, _, _, _)
SharedFrom(i, s, j, valid_only) ==
  IF j > Len(s) THEN 0
  ELSE (IF valid_only /\ ~classes_source[s[j]].valid THEN 0
        ELSE area(ZoneAt(i).cells \cap classes_source[s[j]].cells))
       + SharedFrom(i, s, j + 1, valid_only)
SharedArea(i, s) == SharedFrom(i, s, 1, FALSE)
ValidSharedArea(i, s) == SharedFrom(i, s, 1, TRUE)

\* the records of zone feature i
RecordsOf(i) == {k \in 1..Len(sink) : sink[k].zone = i}

\* a finished run over polygons, without grouping fields and sum fields
PolygonRunDone ==
  /\ pc = "done"
  /\ zone_type = PolygonGeometry /\ class_type = PolygonGeometry
  /\ zone_fields = <<>> /\ class_fields = <<>> /\ sum_fields = <<>>

AllClasses == [c \in 1..Len(classes_source) |-> c]

\* C1 as stated: polygon zones and classes, no grouping and no sum fields:
\* every zone feature that intersects a valid class feature has exactly one
\* record, with AREA the sum of the areas shared with the class features and
\* PERCENTAGE = AREA / zone area * 100.
C1_Original ==
  PolygonRunDone =>
    \A i \in 1..Len(zones_source) :
      (\E c \in 1..Len(classes_source) :
          /\ classes_source[c].valid
          /\ intersects(zone_type, class_type, ZoneAt(i).cells, classes_source[c].cells))
      => /\ Cardinality(RecordsOf(i)) = 1
         /\ \A k \in RecordsOf(i) :
              sink[k].attrs = <<Num(SharedArea(i, AllClasses)),
                                Float(Rat(SharedArea(i, AllClasses) * 100,
                                          area(ZoneAt(i).cells)))>>

\* C1 amended: polygon zones and classes, no grouping and no sum fields:
\* every zone feature that shares a non-zero area with the valid class
\* features has exactly one record, with AREA the sum of the areas shared with
\* the valid class features and PERCENTAGE = AREA / zone area * 100; a zone
\* of area 100 around a single class polygon of area 40 has the one record
\* AREA = 40, PERCENTAGE = 40.
C1_AreaAndPercentage ==
  PolygonRunDone =>
    /\ \A i \in 1..Len(zones_source) :
         ValidSharedArea(i, AllClasses) # 0
         => /\ Cardinality(RecordsOf(i)) = 1
            /\ \A k \in RecordsOf(i) :
                 sink[k].attrs = <<Num(ValidSharedArea(i, AllClasses)),
                                   Float(Rat(ValidSharedArea(i, AllClasses) * 100,
                                             area(ZoneAt(i).cells)))>>
    /\ ( /\ Len(zones_source) = 1 /\ Len(classes_source) = 1
         /\ area(zones_source[1].cells) = 100
         /\ area(classes_source[1].cells) = 40
         /\ classes_source[1].cells \subseteq zones_source[1].cells
         /\ classes_source[1].valid )
       => sink = <<[attrs |-> <<Num(40), Float(<<40, 1>>)>>, zone |-> 1,
                    zone_key |-> ALL, class_key |-> ALL]>>

\* C1 witness: the run over one zone of area 100 around one class polygon of
\* area 40 has ended with its record
C1_Witness ==
  /\ PolygonRunDone
  /\ Len(zones_source) = 1 /\ Len(classes_source) = 1
  /\ area(zones_source[1].cells) = 100
  /\ area(classes_source[1].cells) = 40
  /\ classes_source[1].cells \subseteq zones_source[1].cells
  /\ Len(sink) = 1

\* the topological dimension of a geometry type
Dimension(t) ==
  CASE t = PointGeometry -> 0
    [] t = LineGeometry -> 1
    [] t = PolygonGeometry -> 2

\* nothing of the run has happened but the validation
NoWorkDone ==
  /\ output_fields = <<>> /\ ~sink_created /\ sink = <<>>
  /\ zones_source = <<>> /\ classes_source = <<>>
  /\ zones = <<>> /\ classes = <<>>
  /\ zi = 0 /\ ck = 0 /\ cf = 0 /\ class_feature = 0
  /\ class_measures = NewMeasures(<<>>) /\ total_zone_measure = 0
  /\ total = 0 /\ current = 0 /\ progress = <<>> /\ feedback_errors = <<>>

\* C2: validateGeometries raises exactly when the class type's dimension
\* exceeds the zone type's, and an accepted pair leaves the state as it was.
C2_ValidateIff ==
  /\ pc = "aborted" => Dimension(class_type) > Dimension(zone_type)
  /\ pc \notin {"validate", "aborted"} => Dimension(class_type) <= Dimension(zone_type)
  /\ pc = "schema" => NoWorkDone

\* C2 witness: the validation has refused line classes on point zones
C2_Witness ==
  pc = "aborted" /\ zone_type = PointGeometry /\ class_type = LineGeometry

\* C3: with incompatible geometry types the run ends at the validation: no
\* sink is created, no feature is enumerated or grouped, no intersection is
\* computed and no record is added; and nothing of this precedes the
\* validation in any run.
C3_AbortBeforeWork ==
  /\ Dimension(class_type) > Dimension(zone_type)
       => pc \in {"validate", "aborted"}
  /\ pc \in {"validate", "aborted"} => NoWorkDone

\* C3 witness: a run on point zones and polygon classes has aborted
C3_Witness ==
  /\ pc = "aborted" /\ zone_type = PointGeometry /\ class_type = PolygonGeometry
  /\ ~sink_created /\ sink = <<>>

\* no class feature of class group k intersects zone feature i
NoneIntersects(i, k) ==
  \A j \in 1..Len(classes[k].feats) :
    ~intersects(zone_type, class_type, ZoneAt(i).cells,
                classes_source[classes[k].feats[j]].cells)

\* C4: when the scan of a class group ends, a record is added exactly if
\* AREA, LENGTH, PNT_COUNT or the percentage is not zero; none is added when
\* no class feature of the group intersects the zone feature; and no other
\* step adds a record.
C4_EmitIffNonZero == [][
  /\ (pc = "emit" /\ ck' # ck) =>
       LET percentage == calculatePercentage(class_measures, total_zone_measure,
                                             zone_type, class_type)
           nonzero == \/ class_measures.AREA # 0
                      \/ class_measures.LENGTH # 0
                      \/ class_measures.PNT_COUNT # 0
                      \/ percentage # Zero
       IN /\ nonzero => Len(sink') = Len(sink) + 1 /\ SubSeq(sink', 1, Len(sink)) = sink
          /\ ~nonzero => sink' = sink
          /\ NoneIntersects(zi, ck) => sink' = sink
  /\ ~(pc = "emit" /\ ck' # ck) => sink' = sink
  ]_vars

\* C4 witness: a finished run of one zone feature over two class groups, one
\* with a record and one without
C4_Witness ==
  /\ pc = "done" /\ Len(zones_source) = 1 /\ Len(classes) = 2 /\ Len(sink) = 1

\* C5 as stated: the sink never holds two records of the same zone group and
\* the same class group.
C5_OneRecordPerGroupPair ==
  \A j, k \in 1..Len(sink) :
    (sink[j].zone_key = sink[k].zone_key /\ sink[j].class_key = sink[k].class_key)
    => j = k

\* every class feature has a valid geometry
AllValid == \A c \in 1..Len(classes_source) : classes_source[c].valid

\* C6 as stated: with valid geometries, the percentage computed at the end
\* of the scan of a class group lies in [0, 100].
C6_PercentageInRange ==
  (pc = "emit" /\ AllValid) =>
    LET percentage == calculatePercentage(class_measures, total_zone_measure,
                                          zone_type, class_type)
    IN RatLeq(Zero, percentage) /\ RatLeq(percentage, <<100, 1>>)

\* the step of ScanStep
Scanning == pc = "scan" /\ (cf' # cf \/ pc' # pc)
\* the class feature it scans, its intersection with the zone feature and
\* the measure of the intersection
Scanned == classes_source[classes[ck].feats[cf]]
ScannedHit ==
  /\ intersects(zone_type, class_type, ZoneAt(zi).cells, Scanned.cells)
  /\ ~isEmpty(intersection(zone_type, class_type, ZoneAt(zi).cells, Scanned.cells))
ScannedMeasure ==
  calculateMeasure(intersection(zone_type, class_type, ZoneAt(zi).cells, Scanned.cells),
                   zone_type, class_type)
\* a sum field of the scanned feature holds a number, or does not
SumFieldsPresent == {f \in DOMAIN class_measures.SUM_FIELDS : f \in DOMAIN Scanned.attrs}
IsNumeric(v) == v.kind = "num" \/ (v.kind = "str" /\ v.str \in NumericStrings)
Unreadable(v) == v.kind = "null" \/ (v.kind = "str" /\ v.str \notin NumericStrings)
\* v * (measure / total measure of the scanned feature), 0 when that total is 0
Share(v) ==
  LET t == calculateTotalMeasure(Scanned.cells, class_type)
      n == IF v.kind = "num" THEN <<v.num, v.den>> ELSE <<ParseNumber(v.str), 1>>
  IN IF t = 0 THEN Zero ELSE Rat(n[1] * ScannedMeasure, n[2] * t)

\* C7 as stated: scanning a valid class feature that intersects the zone
\* feature adds v * (measure / total measure) to the running sum of every sum
\* field the feature holds with a numeric value v.
C7_ProportionalSum == [][
  (Scanning /\ Scanned.valid /\ ScannedHit) =>
    \A f \in SumFieldsPresent :
      IsNumeric(Scanned.attrs[f]) =>
        class_measures'.SUM_FIELDS[f]
          = RatAdd(class_measures.SUM_FIELDS[f], Share(Scanned.attrs[f]))
  ]_vars

\* C8 as stated: when a sum field of the scanned feature cannot be read as a
\* number, that field's sum stays as it was, the other sum fields of the
\* feature are accumulated, and the run goes on.
C8_UnreadableFieldIsZero == [][
  (Scanning /\ Scanned.valid /\ ScannedHit
     /\ \E f \in SumFieldsPresent : Unreadable(Scanned.attrs[f])) =>
    /\ pc' \in {"scan", "emit"}
    /\ \A f \in SumFieldsPresent :
         class_measures'.SUM_FIELDS[f]
           = IF Unreadable(Scanned.attrs[f]) THEN class_measures.SUM_FIELDS[f]
             ELSE RatAdd(class_measures.SUM_FIELDS[f], Share(Scanned.attrs[f]))
  ]_vars

\* C10 as stated: no record is added for a zone feature whose processing
\* started after the host cancelled the run.
C10_NoRecordAfterCancel == [][zone_started_after_cancel => sink' = sink]_vars

\* C11 as stated: the i-th progress value is the integer percentage of the
\* (zone feature, class group) pairs processed after i zone features over all
\* such pairs; the values never exceed 100 and never decrease, and the last
\* value of a finished run is 100.
C11_ProgressOfPairs ==
  /\ \A i \in 1..Len(progress) :
       /\ Len(classes) # 0 =>
            progress[i] = (i * Len(classes) * 100) \div (Len(zones_source) * Len(classes))
       /\ progress[i] <= 100
       /\ i > 1 => progress[i - 1] <= progress[i]
  /\ (pc = "done" /\ progress # <<>>) => progress[Len(progress)] = 100

\* the zone source has been grouped
ZonesGrouped == pc \in {"zone", "scan", "emit", "progress", "done", "crashed"}
\* the one group 'ALL' of all n features in their order
OneGroupAll(n) == <<[key |-> ALL, feats |-> [i \in 1..n |-> i]]>>

\* C12 as stated: without grouping fields groupFeatures returns exactly one
\* group, of key 'ALL', holding all the features in their order, also for a
\* source without features.
C12_Original ==
  (ZonesGrouped /\ zone_fields = <<>>) => zones = OneGroupAll(Len(zones_source))

\* C12 amended: without grouping fields groupFeatures returns exactly one
\* group, of key 'ALL', holding all the features in their order, for every
\* source that has a feature; for a source without features it returns no
\* group.
C12_OneGroupUnlessEmpty ==
  (ZonesGrouped /\ zone_fields = <<>>) =>
    zones = IF Len(zones_source) = 0 THEN <<>> ELSE OneGroupAll(Len(zones_source))

\* C12 witness: two zone features were grouped without grouping fields
C12_Witness ==
  ZonesGrouped /\ zone_fields = <<>> /\ Len(zones_source) = 2 /\ Len(zones) = 1

\* C13: AREA, LENGTH and PNT_COUNT are never negative, the two of them that
\* the class layer's geometry type does not select are zero, and all three are
\* zero when the scan of a class group starts.
C13_OneMeasure ==
  /\ class_measures.AREA >= 0 /\ class_measures.LENGTH >= 0
  /\ class_measures.PNT_COUNT >= 0
  /\ class_type # PolygonGeometry => class_measures.AREA = 0
  /\ class_type # LineGeometry => class_measures.LENGTH = 0
  /\ class_type # PointGeometry => class_measures.PNT_COUNT = 0
  /\ ((pc = "scan" /\ cf = 1) \/ (pc = "emit" /\ Len(classes[ck].feats) = 0)) =>
       /\ class_measures.AREA = 0 /\ class_measures.LENGTH = 0
       /\ class_measures.PNT_COUNT = 0

\* C13 witness: the scan of a second class group starts at zero after a
\* first group that was recorded with a length
C13_Witness ==
  /\ pc = "scan" /\ cf = 1 /\ ck = 2 /\ class_type = LineGeometry
  /\ Len(sink) > 0 /\ sink[Len(sink)].zone = zi
  /\ class_measures.LENGTH = 0

\* C14: when updateMeasures is called with a class feature of invalid
\* geometry, AREA, LENGTH, PNT_COUNT and every sum stay as they were, nothing
\* is raised or reported, and the scan goes on with the next class feature.
C14_InvalidSkipped == [][
  (Scanning /\ ScannedHit /\ ~Scanned.valid) =>
    /\ class_measures' = class_measures
    /\ feedback_errors' = feedback_errors
    /\ cf' = cf + 1
    /\ pc' = IF cf + 1 > Len(classes[ck].feats) THEN "emit" ELSE "scan"
  ]_vars

\* C14 witness: a class feature of invalid geometry that shares cells with
\* the zone feature was scanned, in a run with sum fields
C14_Witness ==
  /\ pc \in {"scan", "emit"} /\ cf > 1 /\ sum_fields # <<>>
  /\ class_feature = classes[ck].feats[cf - 1]
  /\ ~classes_source[class_feature].valid
  /\ classes_source[class_feature].cells \cap ZoneAt(zi).cells # {}

\* the last class feature, in insertion order, of the class group of key
LastOfGroup(key) ==
  LET g == CHOOSE x \in 1..Len(classes) : classes[x].key = key
  IN classes[g].feats[Len(classes[g].feats)]

\* C15: the class field values of every record are those of the last class
\* feature of the record's class group, whether it intersects the record's
\* zone feature or not.
C15_LastClassFeature ==
  \A k \in 1..Len(sink) :
    \A i \in 1..Len(class_fields) :
      sink[k].attrs[Len(zone_fields) + i]
        = classes_source[LastOfGroup(sink[k].class_key)].attrs[class_fields[i]]

\* C15 witness: a record with class field values whose class group ends with
\* a feature that does not intersect the record's zone feature
C15_Witness ==
  \E k \in 1..Len(sink) :
    /\ class_fields # <<>>
    /\ ~intersects(zone_type, class_type, ZoneAt(sink[k].zone).cells,
                   classes_source[LastOfGroup(sink[k].class_key)].cells)

\* C16: in a run whose zone and class geometry types differ, the percentage
\* of every (zone feature, class group) pair is 0: the one computed at the
\* end of each scan, and the one written in each record.
C16_CrossTypeZero ==
  zone_type # class_type =>
    /\ pc = "emit" =>
         calculatePercentage(class_measures, total_zone_measure,
                             zone_type, class_type) = <<0, 1>>
    /\ \A k \in 1..Len(sink) :
         sink[k].attrs[Len(sink[k].attrs)] = Float(<<0, 1>>)

\* C16 witness: a record of a polygon zone feature that two class lines
\* run through
C16_Witness ==
  /\ zone_type = PolygonGeometry /\ class_type = LineGeometry
  /\ pc = "progress" /\ Len(sink) > 0 /\ sink[Len(sink)].zone = zi
  /\ class_measures.LENGTH > 0 /\ Len(classes[ck - 1].feats) = 2

\* the value a record should carry under the schema field at position i:
\* the zone feature's, then the class feature's, value of the field named there
SchemaValue(r, i) ==
  IF i <= Len(zone_fields)
  THEN ZoneAt(r.zone).attrs[output_fields[i]]
  ELSE classes_source[LastOfGroup(r.class_key)].attrs[output_fields[i]]

\* C17 as stated: every record has as many attributes as the output schema
\* has fields, and the attribute at each position of a selected zone or class
\* field is the value of the field the schema names at that position,
\* whatever the order in which the fields were selected.
C17_AttributesMatchSchema ==
  \A k \in 1..Len(sink) :
    /\ Len(sink[k].attrs) = Len(output_fields)
    /\ \A i \in 1..(Len(zone_fields) + Len(class_fields)) :
         sink[k].attrs[i] = SchemaValue(sink[k], i)

====
